---- MODULE Spec2Model ----
(***************************************************************************)
(* The account ledger of the wallet (ironfish/src/wallet/account.ts): the  *)
(* in-memory indices of one Account, the persisted store behind them, and  *)
(* the calls that change them.  Every call is one action; the store writes *)
(* of a call are made inside one withTransaction scope, so a call that     *)
(* throws keeps its in-memory changes and loses its store writes.          *)
(***************************************************************************)
EXTENDS Integers, Sequences, FiniteSets, TLC

(* ---- the universe of inputs ------------------------------------------- *)

\* Calls made on the account in one run.
MaxCalls == 5

\* null / undefined of the source
Null == 0

\* Transactions the chain-sync driver may deliver, by unsigned hash:
\* transaction t creates the note t for the account; transaction 2 spends
\* the note of transaction 1 and pays a further note to another party.
TxHashes == {1, 2}
\* Notes the account receives, by merkle hash.
NoteHashes == TxHashes
\* Blocks a transaction may be mined in; block b sits at sequence b.
BlockHashes == {1, 2}
Sequences == BlockHashes
\* Two byte-wise different transactions with one unsigned hash differ in
\* their signatures only.
Signatures == {"sigA", "sigB"}

\* A block hash fixes its header, hence its sequence.
SequenceOf(blockHash) == blockHash

\* Transaction: unsignedHash(), notes(), spends(), equals()
Transactions == [unsignedHash : TxHashes, signature : Signatures]
unsignedHash(transaction) == transaction.unsignedHash
\* merkle hashes of transaction.notes(), in order: the note the account
\* receives and, in a transaction the account sends, a note paid to another
\* party
notes(transaction) ==
  IF transaction.unsignedHash > 1
    THEN <<transaction.unsignedHash,
           Cardinality(TxHashes) + transaction.unsignedHash>>
    ELSE <<transaction.unsignedHash>>
\* the nullifier a note reveals when it is spent
NullifierOf(noteHash) == noteHash
\* nullifiers of transaction.spends(), in order
spends(transaction) ==
  IF transaction.unsignedHash > 1
    THEN <<NullifierOf(transaction.unsignedHash - 1)>>
    ELSE <<>>
equals(a, b) == a = b

\* new Note(serializedNote).value(); the serialized note is named by its hash
value(serializedNote) == 2 ^ (serializedNote - 1)

\* this.id
id == "account"

\* SyncTransactionParams: {blockHash, sequence} | {submittedSequence} | {}
\* A field that is absent is Null.
SyncTransactionParams ==
  { [blockHash |-> b, sequence |-> SequenceOf(b), submittedSequence |-> Null] :
      b \in BlockHashes }
  \cup { [blockHash |-> Null, sequence |-> Null, submittedSequence |-> q] :
      q \in Sequences }
  \cup { [blockHash |-> Null, sequence |-> Null, submittedSequence |-> Null] }

\* The decryptedNotes array a caller passes with a transaction: one element
\* for every note of the transaction the account can decrypt.  A note paid to
\* another party is decrypted with the outgoing key (forSpender) and has no
\* nullifier; the position and the nullifier of a received note are known
\* once the transaction is in a block.
DecryptedNotes(transaction, params) ==
  [ i \in DOMAIN notes(transaction) |->
      LET h == notes(transaction)[i]
          received == h \in NoteHashes
          known == params.blockHash # Null
      IN  [ noteIndex |-> IF known THEN h ELSE Null,
            nullifier |-> IF known /\ received THEN NullifierOf(h) ELSE Null,
            merkleHash |-> h,
            forSpender |-> ~received,
            serializedNote |-> h ] ]

(* ---- BufferMap / BufferSet -------------------------------------------- *)

EmptyMap == <<>>
Has(map, key) == key \in DOMAIN map
Set(map, key, val) ==
  [k \in (DOMAIN map) \cup {key} |-> IF k = key THEN val ELSE map[k]]
Delete(map, key) == [k \in (DOMAIN map) \ {key} |-> map[k]]

(* ---- state ------------------------------------------------------------ *)

VARIABLES
  decryptedNotes,        \* this.decryptedNotes: note hash -> DecryptedNoteValue
  nullifierToNoteHash,   \* this.nullifierToNoteHash: nullifier -> note hash
  transactions,          \* this.transactions: hash -> record
  noteHashesBySequence,  \* this.noteHashesBySequence: sequence -> set of hashes
  nonChainNoteHashes,    \* this.nonChainNoteHashes
  accountsDb,            \* the persisted store of the account
  lastCall,              \* the call that led to this state, whether it repeats
                         \* the call before it, and how it ended
  updateLog,             \* the updateDecryptedNote calls made by that call
  storeWrites,           \* the store writes that call issued, by name
  calls,                 \* number of calls made so far
  tasks,                 \* the updateDecryptedNote calls in flight, each with
                         \* its position and its own store scope
  base                   \* the account when the first of them began

vars == <<decryptedNotes, nullifierToNoteHash, transactions, noteHashesBySequence,
          nonChainNoteHashes, accountsDb, lastCall, updateLog, storeWrites, calls,
          tasks, base>>

\* The account and its store while a call runs.  ok is FALSE once the call
\* has thrown; every later step of the call is then skipped.
Current ==
  [ decryptedNotes |-> decryptedNotes,
    nullifierToNoteHash |-> nullifierToNoteHash,
    transactions |-> transactions,
    noteHashesBySequence |-> noteHashesBySequence,
    nonChainNoteHashes |-> nonChainNoteHashes,
    accountsDb |-> accountsDb,
    updateLog |-> <<>>,
    storeWrites |-> {},
    ok |-> TRUE ]

EmptyStore ==
  [ decryptedNotes |-> EmptyMap, nullifierToNoteHash |-> EmptyMap,
    transactions |-> EmptyMap, unconfirmedBalance |-> 0 ]

NoCall ==
  [ op |-> "none", transaction |-> Null, decryptedNotes |-> <<>>,
    params |-> Null, repeat |-> FALSE, ok |-> TRUE ]

\* Callers that may have an updateDecryptedNote call in flight at once.
Tasks == {1, 2}

\* a caller that has not called yet: pc is the await point the call is at
IdleTask ==
  [ pc |-> "idle", noteHash |-> Null, note |-> Null, adjust |-> FALSE,
    current |-> 0, balanceWrite |-> <<>>, noteWrite |-> FALSE, ok |-> TRUE ]

\* new Account(...) on an empty store
Init ==
  /\ decryptedNotes = EmptyMap
  /\ nullifierToNoteHash = EmptyMap
  /\ transactions = EmptyMap
  /\ noteHashesBySequence = EmptyMap
  /\ nonChainNoteHashes = {}
  /\ accountsDb = EmptyStore
  /\ lastCall = NoCall
  /\ updateLog = <<>>
  /\ storeWrites = {}
  /\ calls = 0
  /\ tasks = [k \in Tasks |-> IdleTask]
  /\ base = <<>>

(* ---- AccountsDB: point reads and writes of the store ------------------ *)

Throw(s) == [s EXCEPT !.ok = FALSE]

getUnconfirmedBalanceDb(s) == s.accountsDb.unconfirmedBalance

saveUnconfirmedBalanceDb(s, balance) ==
  [s EXCEPT !.accountsDb.unconfirmedBalance = balance,
            !.storeWrites = @ \cup {"saveUnconfirmedBalance"}]

saveDecryptedNoteDb(s, noteHash, note) ==
  [s EXCEPT !.accountsDb.decryptedNotes = Set(@, noteHash, note),
            !.storeWrites = @ \cup {"saveDecryptedNote"}]

deleteDecryptedNoteDb(s, noteHash) ==
  [s EXCEPT !.accountsDb.decryptedNotes = Delete(@, noteHash),
            !.storeWrites = @ \cup {"deleteDecryptedNote"}]

saveNullifierNoteHashDb(s, nullifier, noteHash) ==
  [s EXCEPT !.accountsDb.nullifierToNoteHash = Set(@, nullifier, noteHash),
            !.storeWrites = @ \cup {"saveNullifierNoteHash"}]

deleteNullifierDb(s, nullifier) ==
  [s EXCEPT !.accountsDb.nullifierToNoteHash = Delete(@, nullifier),
            !.storeWrites = @ \cup {"deleteNullifier"}]

saveTransactionDb(s, hash, transactionValue) ==
  [s EXCEPT !.accountsDb.transactions = Set(@, hash, transactionValue),
            !.storeWrites = @ \cup {"saveTransaction"}]

deleteTransactionDb(s, hash) ==
  [s EXCEPT !.accountsDb.transactions = Delete(@, hash),
            !.storeWrites = @ \cup {"deleteTransaction"}]

\* database.withTransaction around a whole call: the writes of a call that
\* threw are rolled back, its in-memory changes stay.
withTransaction(s) ==
  IF s.ok THEN s ELSE [s EXCEPT !.accountsDb = accountsDb]

(* ---- Account: notes and balance --------------------------------------- *)

saveUnconfirmedBalance(s, balance) == saveUnconfirmedBalanceDb(s, balance)

\* saveDecryptedNoteSequence without the removal from the Non-chain Note Set
saveDecryptedNoteSequenceKeepsNonChain(s, transactionHash, noteHash) ==
  IF ~s.ok THEN s
  ELSE IF ~Has(s.transactions, transactionHash) THEN Throw(s)
  ELSE
    LET transaction == s.transactions[transactionHash]
        sequence == transaction.sequence
        blockHash == transaction.blockHash
    IN  IF blockHash # Null
          THEN IF sequence = Null THEN Throw(s)
               ELSE [s EXCEPT
                       !.noteHashesBySequence =
                          Set(@, sequence,
                              (IF Has(@, sequence) THEN @[sequence] ELSE {})
                                \cup {noteHash})]
          ELSE [s EXCEPT !.nonChainNoteHashes = @ \cup {noteHash}]

saveDecryptedNoteSequence(s, transactionHash, noteHash) ==
  IF ~s.ok THEN s
  ELSE IF ~Has(s.transactions, transactionHash) THEN Throw(s)
  ELSE
    LET transaction == s.transactions[transactionHash]
        sequence == transaction.sequence
        blockHash == transaction.blockHash
    IN  IF blockHash # Null
          THEN IF sequence = Null THEN Throw(s)
               ELSE [s EXCEPT
                       !.noteHashesBySequence =
                          Set(@, sequence,
                              (IF Has(@, sequence) THEN @[sequence] ELSE {})
                                \cup {noteHash}),
                       !.nonChainNoteHashes = @ \ {noteHash}]
          ELSE [s EXCEPT !.nonChainNoteHashes = @ \cup {noteHash}]

\* updateDecryptedNote adjusting the balance on every update
updateDecryptedNoteAlwaysAdjusts(s, noteHash, note) ==
  IF ~s.ok THEN s
  ELSE
    LET existing == Has(s.decryptedNotes, noteHash)
        adjust == TRUE
        v == value(note.serializedNote)
        currentUnconfirmedBalance == getUnconfirmedBalanceDb(s)
        s1 == IF adjust
                THEN IF note.spent
                       THEN saveUnconfirmedBalance(s, currentUnconfirmedBalance - v)
                       ELSE saveUnconfirmedBalance(s, currentUnconfirmedBalance + v)
                ELSE s
        s2 == saveDecryptedNoteSequence(s1, note.transactionHash, noteHash)
        s3 == IF ~s2.ok THEN s2
              ELSE saveDecryptedNoteDb(
                     [s2 EXCEPT !.decryptedNotes = Set(@, noteHash, note)],
                     noteHash, note)
    IN  [s3 EXCEPT !.updateLog = Append(@,
           [ noteHash |-> noteHash, existed |-> existing,
             wasSpent |-> existing /\ s.decryptedNotes[noteHash].spent,
             spent |-> note.spent, value |-> v,
             before |-> currentUnconfirmedBalance,
             after |-> getUnconfirmedBalanceDb(s3), ok |-> s3.ok ])]

updateDecryptedNote(s, noteHash, note) ==
  IF ~s.ok THEN s
  ELSE
    LET existing == Has(s.decryptedNotes, noteHash)
        adjust == ~existing \/ s.decryptedNotes[noteHash].spent # note.spent
        v == value(note.serializedNote)
        currentUnconfirmedBalance == getUnconfirmedBalanceDb(s)
        s1 == IF adjust
                THEN IF note.spent
                       THEN saveUnconfirmedBalance(s, currentUnconfirmedBalance - v)
                       ELSE saveUnconfirmedBalance(s, currentUnconfirmedBalance + v)
                ELSE s
        s2 == saveDecryptedNoteSequence(s1, note.transactionHash, noteHash)
        s3 == IF ~s2.ok THEN s2
              ELSE saveDecryptedNoteDb(
                     [s2 EXCEPT !.decryptedNotes = Set(@, noteHash, note)],
                     noteHash, note)
    IN  [s3 EXCEPT !.updateLog = Append(@,
           [ noteHash |-> noteHash, existed |-> existing,
             wasSpent |-> existing /\ s.decryptedNotes[noteHash].spent,
             spent |-> note.spent, value |-> v,
             before |-> currentUnconfirmedBalance,
             after |-> getUnconfirmedBalanceDb(s3), ok |-> s3.ok ])]

updateNullifierNoteHash(s, nullifier, noteHash) ==
  IF ~s.ok THEN s
  ELSE saveNullifierNoteHashDb(
         [s EXCEPT !.nullifierToNoteHash = Set(@, nullifier, noteHash)],
         nullifier, noteHash)

deleteNullifier(s, nullifier) ==
  IF ~s.ok THEN s
  ELSE deleteNullifierDb(
         [s EXCEPT !.nullifierToNoteHash = Delete(@, nullifier)], nullifier)

updateTransaction(s, hash, transactionValue) ==
  IF ~s.ok THEN s
  ELSE saveTransactionDb(
         [s EXCEPT !.transactions = Set(@, hash, transactionValue)],
         hash, transactionValue)

deleteDecryptedNote(s, noteHash, transactionHash) ==
  IF ~s.ok THEN s
  ELSE
    LET existing == Has(s.decryptedNotes, noteHash)
        existingNote == s.decryptedNotes[noteHash]
        currentUnconfirmedBalance == getUnconfirmedBalanceDb(s)
        s1 == IF existing
                THEN IF existingNote.spent
                       THEN saveUnconfirmedBalance(s,
                              currentUnconfirmedBalance + value(existingNote.serializedNote))
                       ELSE saveUnconfirmedBalance(s,
                              currentUnconfirmedBalance - value(existingNote.serializedNote))
                ELSE s
        hasRecord == Has(s1.transactions, transactionHash)
        sequence == s1.transactions[transactionHash].sequence
        s2 == IF hasRecord /\ sequence # Null /\ Has(s1.noteHashesBySequence, sequence)
                THEN [s1 EXCEPT !.noteHashesBySequence[sequence] = @ \ {noteHash}]
                ELSE s1
    IN  deleteDecryptedNoteDb(
          [s2 EXCEPT !.nonChainNoteHashes = @ \ {noteHash},
                     !.decryptedNotes = Delete(@, noteHash)],
          noteHash)


(* ---- Account: synchronisation ----------------------------------------- *)

RECURSIVE bulkUpdateFromRecordsAll(_, _, _, _)
\* the loop of bulkUpdateDecryptedNotes without the forSpender test
bulkUpdateFromRecordsAll(s, transactionHash, inputs, i) ==
  IF i > Len(inputs) \/ ~s.ok THEN s
  ELSE
    LET decryptedNote == inputs[i]
        s1 == IF decryptedNote.nullifier # Null
                THEN updateNullifierNoteHash(s, decryptedNote.nullifier,
                                             decryptedNote.merkleHash)
                ELSE s
        s2 == updateDecryptedNote(s1, decryptedNote.merkleHash,
                [ accountId |-> id,
                  nullifierHash |-> decryptedNote.nullifier,
                  noteIndex |-> decryptedNote.noteIndex,
                  serializedNote |-> decryptedNote.serializedNote,
                  spent |-> FALSE,
                  transactionHash |-> transactionHash ])
    IN  bulkUpdateFromRecordsAll(s2, transactionHash, inputs, i + 1)

RECURSIVE bulkUpdateFrom(_, _, _, _)
bulkUpdateFrom(s, transactionHash, inputs, i) ==
  IF i > Len(inputs) \/ ~s.ok THEN s
  ELSE
    LET decryptedNote == inputs[i]
        s1 == IF decryptedNote.nullifier # Null
                THEN updateNullifierNoteHash(s, decryptedNote.nullifier,
                                             decryptedNote.merkleHash)
                ELSE s
        s2 == updateDecryptedNote(s1, decryptedNote.merkleHash,
                [ accountId |-> id,
                  nullifierHash |-> decryptedNote.nullifier,
                  noteIndex |-> decryptedNote.noteIndex,
                  serializedNote |-> decryptedNote.serializedNote,
                  spent |-> FALSE,
                  transactionHash |-> transactionHash ])
    IN  bulkUpdateFrom(IF ~decryptedNote.forSpender THEN s2 ELSE s,
                       transactionHash, inputs, i + 1)

bulkUpdateDecryptedNotes(s, transactionHash, inputs) ==
  bulkUpdateFrom(s, transactionHash, inputs, 1)

RECURSIVE processSpendsFrom(_, _, _, _)
processSpendsFrom(s, nullifiers, isRemovingTransaction, i) ==
  IF i > Len(nullifiers) \/ ~s.ok THEN s
  ELSE
    LET nullifier == nullifiers[i]
        found == Has(s.nullifierToNoteHash, nullifier)
        noteHash == s.nullifierToNoteHash[nullifier]
        s1 == IF ~found THEN s
              ELSE IF ~Has(s.decryptedNotes, noteHash) THEN Throw(s)
              ELSE updateDecryptedNote(s, noteHash,
                     [s.decryptedNotes[noteHash] EXCEPT
                        !.spent = ~isRemovingTransaction])
    IN  processSpendsFrom(s1, nullifiers, isRemovingTransaction, i + 1)

\* processTransactionSpends marking the notes spent whatever the status
processTransactionSpendsAlwaysSpends(s, transaction, isRemovingTransaction) ==
  processSpendsFrom(s, spends(transaction), FALSE, 1)

processTransactionSpends(s, transaction, isRemovingTransaction) ==
  processSpendsFrom(s, spends(transaction), isRemovingTransaction, 1)

syncTransaction(s, transaction, inputs, params) ==
  LET transactionHash == unsignedHash(transaction)
      blockHash == params.blockHash
      sequence == params.sequence
      hasRecord == Has(s.transactions, transactionHash)
      record == s.transactions[transactionHash]
      submittedSequence ==
        IF hasRecord THEN record.submittedSequence ELSE params.submittedSequence
      shouldUpdateTransaction ==
        \/ ~hasRecord
        \/ ~equals(record.transaction, transaction)
        \/ record.blockHash # blockHash
      s1 == IF shouldUpdateTransaction
              THEN updateTransaction(s, transactionHash,
                     [ transaction |-> transaction, blockHash |-> blockHash,
                       sequence |-> sequence,
                       submittedSequence |-> submittedSequence ])
              ELSE s
      isRemovingTransaction == submittedSequence = Null /\ blockHash = Null
      s2 == bulkUpdateDecryptedNotes(s1, transactionHash, inputs)
  IN  withTransaction(processTransactionSpends(s2, transaction, isRemovingTransaction))

(* ---- Account: deletion ------------------------------------------------- *)

RECURSIVE deleteNotesFrom(_, _, _, _)
deleteNotesFrom(s, hash, merkleHashes, i) ==
  IF i > Len(merkleHashes) \/ ~s.ok THEN s
  ELSE
    LET merkleHash == merkleHashes[i]
        found == Has(s.decryptedNotes, merkleHash)
        decryptedNote == s.decryptedNotes[merkleHash]
        s1 == deleteDecryptedNote(s, merkleHash, hash)
        s2 == IF decryptedNote.nullifierHash # Null
                THEN deleteNullifier(s1, decryptedNote.nullifierHash)
                ELSE s1
    IN  deleteNotesFrom(IF found THEN s2 ELSE s, hash, merkleHashes, i + 1)

RECURSIVE unspendFromKeepsSpent(_, _, _)
\* the second loop of deleteTransaction leaving the spent flag as stored
unspendFromKeepsSpent(s, nullifiers, i) ==
  IF i > Len(nullifiers) \/ ~s.ok THEN s
  ELSE
    LET nullifier == nullifiers[i]
        found == Has(s.nullifierToNoteHash, nullifier)
        noteHash == s.nullifierToNoteHash[nullifier]
        s1 == IF ~found THEN s
              ELSE IF ~Has(s.decryptedNotes, noteHash) THEN Throw(s)
              ELSE updateDecryptedNote(s, noteHash, s.decryptedNotes[noteHash])
    IN  unspendFromKeepsSpent(s1, nullifiers, i + 1)

RECURSIVE unspendFrom(_, _, _)
unspendFrom(s, nullifiers, i) ==
  IF i > Len(nullifiers) \/ ~s.ok THEN s
  ELSE
    LET nullifier == nullifiers[i]
        found == Has(s.nullifierToNoteHash, nullifier)
        noteHash == s.nullifierToNoteHash[nullifier]
        s1 == IF ~found THEN s
              ELSE IF ~Has(s.decryptedNotes, noteHash) THEN Throw(s)
              ELSE updateDecryptedNote(s, noteHash,
                     [s.decryptedNotes[noteHash] EXCEPT !.spent = FALSE])
    IN  unspendFrom(s1, nullifiers, i + 1)

deleteTransaction(s, hash, transaction) ==
  LET s1 == deleteNotesFrom(s, hash, notes(transaction), 1)
      s2 == unspendFrom(s1, spends(transaction), 1)
      s3 == IF ~s2.ok THEN s2
            ELSE deleteTransactionDb(
                   [s2 EXCEPT !.transactions = Delete(@, hash)], hash)
  IN  withTransaction(s3)

(* ---- Account: load, save, reset ---------------------------------------- *)

\* accountsDb.loadNullifierToNoteHash(map), accountsDb.loadTransactions(map):
\* every stored entry is set in the map.
loadInto(map, stored) ==
  [k \in (DOMAIN map) \cup (DOMAIN stored) |->
     IF k \in DOMAIN stored THEN stored[k] ELSE map[k]]

Min(S) == CHOOSE x \in S : \A y \in S : x <= y

\* the for-await loop of loadDecryptedNotesAndBalance over the stored notes,
\* in key order; r.balance is its local unconfirmedBalance
RECURSIVE loadNotesFrom(_, _)
loadNotesFrom(r, hashes) ==
  IF hashes = {} \/ ~r.s.ok THEN r
  ELSE
    LET hash == Min(hashes)
        decryptedNote == r.s.accountsDb.decryptedNotes[hash]
        mine == decryptedNote.accountId = id
        s1 == [r.s EXCEPT !.decryptedNotes = Set(@, hash, decryptedNote)]
        balance == IF ~decryptedNote.spent
                     THEN r.balance + value(decryptedNote.serializedNote)
                     ELSE r.balance
        s2 == saveDecryptedNoteSequence(s1, decryptedNote.transactionHash, hash)
    IN  loadNotesFrom(IF mine THEN [s |-> s2, balance |-> balance] ELSE r,
                      hashes \ {hash})

loadDecryptedNotesAndBalance(s) ==
  LET r == loadNotesFrom([s |-> s, balance |-> 0], DOMAIN s.accountsDb.decryptedNotes)
  IN  IF ~r.s.ok THEN r.s ELSE saveUnconfirmedBalance(r.s, r.balance)

load(s) ==
  loadDecryptedNotesAndBalance(
    [s EXCEPT
       !.nullifierToNoteHash = loadInto(@, s.accountsDb.nullifierToNoteHash),
       !.transactions = loadInto(@, s.accountsDb.transactions)])

\* accountsDb.replaceDecryptedNotes / replaceNullifierToNoteHash /
\* replaceTransactions: the stored table becomes the map
save(s) ==
  [s EXCEPT !.accountsDb.decryptedNotes = s.decryptedNotes,
            !.accountsDb.nullifierToNoteHash = s.nullifierToNoteHash,
            !.accountsDb.transactions = s.transactions,
            !.storeWrites = @ \cup {"replaceDecryptedNotes",
                                    "replaceNullifierToNoteHash",
                                    "replaceTransactions"}]

reset(s) ==
  saveUnconfirmedBalance(
    [s EXCEPT !.decryptedNotes = EmptyMap,
              !.nullifierToNoteHash = EmptyMap,
              !.transactions = EmptyMap],
    0)

(* ---- Account: balance query ------------------------------------------- *)

RECURSIVE SumValues(_, _)
\* the inner loops of getBalance: the values of the unspent notes of a set
SumValues(map, hashes) ==
  IF hashes = {} THEN 0
  ELSE LET hash == Min(hashes)
       IN  (IF ~map[hash].spent THEN value(map[hash].serializedNote) ELSE 0)
             + SumValues(map, hashes \ {hash})

RECURSIVE bucketsFrom(_, _)
\* for (let i = unconfirmedSequenceStart; i < headSequence; i++)
bucketsFrom(i, headSequence) ==
  IF i >= headSequence THEN [ok |-> TRUE, sum |-> 0]
  ELSE
    LET noteHashes == IF Has(noteHashesBySequence, i)
                        THEN noteHashesBySequence[i] ELSE {}
        rest == bucketsFrom(i + 1, headSequence)
    IN  IF noteHashes \subseteq DOMAIN decryptedNotes
          THEN [ok |-> rest.ok, sum |-> SumValues(decryptedNotes, noteHashes) + rest.sum]
          ELSE [ok |-> FALSE, sum |-> 0]

getUnconfirmedBalance == accountsDb.unconfirmedBalance

\* ok is FALSE when Assert.isNotUndefined(note) throws
getBalance(unconfirmedSequenceStart, headSequence) ==
  LET unconfirmed == getUnconfirmedBalance
      buckets == bucketsFrom(unconfirmedSequenceStart, headSequence)
      nonChainOk == nonChainNoteHashes \subseteq DOMAIN decryptedNotes
  IN  IF buckets.ok /\ nonChainOk
        THEN [ ok |-> TRUE, unconfirmed |-> unconfirmed,
               confirmed |-> unconfirmed - buckets.sum
                               - SumValues(decryptedNotes, nonChainNoteHashes) ]
        ELSE [ ok |-> FALSE, unconfirmed |-> unconfirmed, confirmed |-> unconfirmed ]

(* ---- the calls as actions ---------------------------------------------- *)

\* a call with the arguments of the call before it
SameCall(call, before) ==
  /\ call.op = before.op
  /\ call.transaction = before.transaction
  /\ call.decryptedNotes = before.decryptedNotes
  /\ call.params = before.params

Becomes(s, call) ==
  /\ calls < MaxCalls
  /\ calls' = calls + 1
  /\ decryptedNotes' = s.decryptedNotes
  /\ nullifierToNoteHash' = s.nullifierToNoteHash
  /\ transactions' = s.transactions
  /\ noteHashesBySequence' = s.noteHashesBySequence
  /\ nonChainNoteHashes' = s.nonChainNoteHashes
  /\ accountsDb' = s.accountsDb
  /\ updateLog' = s.updateLog
  /\ storeWrites' = s.storeWrites
  /\ UNCHANGED <<tasks, base>>
  /\ lastCall' = [call EXCEPT !.ok = s.ok, !.repeat = SameCall(call, lastCall)]

Call(op, transaction, inputs, params) ==
  [ op |-> op, transaction |-> transaction, decryptedNotes |-> inputs,
    params |-> params, repeat |-> FALSE, ok |-> TRUE ]

SyncTransaction ==
  \E transaction \in Transactions :
    \E params \in SyncTransactionParams :
      Becomes(syncTransaction(Current, transaction,
                              DecryptedNotes(transaction, params), params),
              Call("syncTransaction", transaction,
                   DecryptedNotes(transaction, params), params))

DeleteTransaction ==
  \E transaction \in Transactions :
    Becomes(deleteTransaction(Current, unsignedHash(transaction), transaction),
            Call("deleteTransaction", transaction, <<>>, Null))

Load == Becomes(load(Current), Call("load", Null, <<>>, Null))

Save == Becomes(save(Current), Call("save", Null, <<>>, Null))

Reset == Becomes(reset(Current), Call("reset", Null, <<>>, Null))

Next ==
  \/ SyncTransaction
  \/ DeleteTransaction
  \/ Load
  \/ Save
  \/ Reset

Spec == Init /\ [][Next]_vars

\* the account under syncTransaction calls only
SpecSync == Init /\ [][SyncTransaction]_vars

\* the account under syncTransaction and deleteTransaction calls only
SpecSyncDelete == Init /\ [][SyncTransaction \/ DeleteTransaction]_vars

\* the account under syncTransaction, deleteTransaction and reset calls only
SpecSyncDeleteReset ==
  Init /\ [][SyncTransaction \/ DeleteTransaction \/ Reset]_vars

(* ---- updateDecryptedNote calls interleaved at their awaits --------------- *)

\* Serial syncTransaction calls made before any updateDecryptedNote call.
MaxSetupCalls == 2

\* the notes a caller may pass to updateDecryptedNote: a note of a
\* transaction, spent or not
NoteValues ==
  { [ accountId |-> id, nullifierHash |-> Null, noteIndex |-> Null,
      serializedNote |-> h, spent |-> spent, transactionHash |-> h ] :
      h \in NoteHashes, spent \in BOOLEAN }

Quiet == \A k \in Tasks : tasks[k].pc = "idle"

\* a serial syncTransaction call while no updateDecryptedNote call has begun
Setup ==
  /\ Quiet
  /\ calls < MaxSetupCalls
  /\ SyncTransaction

Untouched ==
  UNCHANGED <<lastCall, updateLog, storeWrites, calls>>

\* updateDecryptedNote up to its first await: the scope is opened, the
\* existing note is looked up and the balance read is issued.  The call
\* touches a note no other call in flight touches.
Begin(k) ==
  \E note \in NoteValues :
    LET noteHash == note.serializedNote
        existing == Has(decryptedNotes, noteHash)
        adjust == ~existing \/ decryptedNotes[noteHash].spent # note.spent
    IN  /\ tasks[k].pc = "idle"
        /\ \A j \in Tasks \ {k} : tasks[j].noteHash # noteHash
        /\ tasks' = [tasks EXCEPT ![k] =
                       [IdleTask EXCEPT !.pc = IF adjust THEN "getUnconfirmedBalance"
                                                ELSE "saveDecryptedNote",
                                        !.noteHash = noteHash,
                                        !.note = note,
                                        !.adjust = adjust]]
        /\ base' = IF Quiet THEN <<Current>> ELSE base
        /\ UNCHANGED <<decryptedNotes, nullifierToNoteHash, transactions,
                       noteHashesBySequence, nonChainNoteHashes, accountsDb>>
        /\ Untouched

\* await this.accountsDb.getUnconfirmedBalance(this, tx): the scope has
\* written no balance yet, so the read returns the committed one
GetUnconfirmedBalance(k) ==
  /\ tasks[k].pc = "getUnconfirmedBalance"
  /\ tasks' = [tasks EXCEPT ![k].current = accountsDb.unconfirmedBalance,
                            ![k].pc = "saveUnconfirmedBalance"]
  /\ UNCHANGED <<decryptedNotes, nullifierToNoteHash, transactions,
                 noteHashesBySequence, nonChainNoteHashes, accountsDb, base>>
  /\ Untouched

\* await this.saveUnconfirmedBalance(currentUnconfirmedBalance -/+ value, tx):
\* a write inside the scope of the call
SaveUnconfirmedBalance(k) ==
  /\ tasks[k].pc = "saveUnconfirmedBalance"
  /\ tasks' = [tasks EXCEPT
       ![k].balanceWrite =
          <<IF tasks[k].note.spent
              THEN tasks[k].current - value(tasks[k].note.serializedNote)
              ELSE tasks[k].current + value(tasks[k].note.serializedNote)>>,
       ![k].pc = "saveDecryptedNote"]
  /\ UNCHANGED <<decryptedNotes, nullifierToNoteHash, transactions,
                 noteHashesBySequence, nonChainNoteHashes, accountsDb, base>>
  /\ Untouched

\* saveDecryptedNoteSequence, this.decryptedNotes.set and await
\* this.accountsDb.saveDecryptedNote(noteHash, note, tx); when the assertion
\* of saveDecryptedNoteSequence throws the scope is aborted
SaveDecryptedNote(k) ==
  LET s == saveDecryptedNoteSequence(Current, tasks[k].note.transactionHash,
                                     tasks[k].noteHash)
  IN  /\ tasks[k].pc = "saveDecryptedNote"
      /\ noteHashesBySequence' = s.noteHashesBySequence
      /\ nonChainNoteHashes' = s.nonChainNoteHashes
      /\ decryptedNotes' = IF s.ok THEN Set(decryptedNotes, tasks[k].noteHash,
                                             tasks[k].note)
                           ELSE decryptedNotes
      /\ tasks' = [tasks EXCEPT ![k].noteWrite = s.ok,
                                ![k].ok = s.ok,
                                ![k].pc = IF s.ok THEN "commit" ELSE "done"]
      /\ UNCHANGED <<nullifierToNoteHash, transactions, accountsDb, base>>
      /\ Untouched

\* the end of the withTransaction scope: its writes reach the store together
Commit(k) ==
  /\ tasks[k].pc = "commit"
  /\ accountsDb' =
       [accountsDb EXCEPT
          !.unconfirmedBalance =
             IF tasks[k].balanceWrite # <<>> THEN tasks[k].balanceWrite[1] ELSE @,
          !.decryptedNotes = Set(@, tasks[k].noteHash, tasks[k].note)]
  /\ tasks' = [tasks EXCEPT ![k].pc = "done"]
  /\ UNCHANGED <<decryptedNotes, nullifierToNoteHash, transactions,
                 noteHashesBySequence, nonChainNoteHashes, base>>
  /\ Untouched

UpdateDecryptedNoteStep ==
  \E k \in Tasks :
    \/ Begin(k)
    \/ GetUnconfirmedBalance(k)
    \/ SaveUnconfirmedBalance(k)
    \/ SaveDecryptedNote(k)
    \/ Commit(k)

\* the account under serial syncTransaction calls followed by one
\* updateDecryptedNote call of each caller, interleaved at their awaits
SpecInterleaved == Init /\ [][Setup \/ UpdateDecryptedNoteStep]_vars

(* ---- properties --------------------------------------------------------- *)

\* the values of the unspent notes of the decrypted-note map
UnspentValue == SumValues(decryptedNotes, DOMAIN decryptedNotes)

\* C1: in every reachable state the stored unconfirmed balance equals the sum
\* of the values of the decrypted notes whose spent flag is false.
C1_BalanceIsSumOfUnspent == getUnconfirmedBalance = UnspentValue

\* the notes a sequence of nullifiers resolves to through the Nullifier Index
ReferencedNotes(nullifierMap, noteMap, nullifiers) ==
  { nullifierMap[nullifiers[i]] :
      i \in { j \in DOMAIN nullifiers :
                /\ Has(nullifierMap, nullifiers[j])
                /\ Has(noteMap, nullifierMap[nullifiers[j]]) } }

\* the record of the transaction that owns a stored note, when there is one
HasOwner(h) == Has(transactions, decryptedNotes[h].transactionHash)
Owner(h) == transactions[decryptedNotes[h].transactionHash]

\* windows of getBalance: confirmationStartSequence <= headSequence
Windows ==
  { w \in (1..(Cardinality(Sequences) + 1)) \X (1..(Cardinality(Sequences) + 1)) :
      w[1] <= w[2] }

\* the confirmed balance of a window as the specification defines it
ConfirmedOf(start, head) ==
  getUnconfirmedBalance
    - SumValues(decryptedNotes,
        { h \in DOMAIN decryptedNotes :
            /\ HasOwner(h)
            /\ Owner(h).sequence # Null
            /\ Owner(h).sequence >= start
            /\ Owner(h).sequence < head })
    - SumValues(decryptedNotes,
        { h \in DOMAIN decryptedNotes : HasOwner(h) /\ Owner(h).blockHash = Null })

\* C2: whenever getBalance returns, for every window its confirmed balance is
\* the unconfirmed balance minus the value of each unspent note whose owning
\* transaction has a sequence inside the window, minus the value of each
\* unspent note whose owning transaction has no block hash, each once.
C2_ConfirmedBalance ==
  \A w \in Windows :
    getBalance(w[1], w[2]).ok =>
      getBalance(w[1], w[2]).confirmed = ConfirmedOf(w[1], w[2])

\* Removed: a record with neither block hash nor submitted sequence
IsRemoved(record) == record.blockHash = Null /\ record.submittedSequence = Null
IsPending(record) == record.blockHash = Null /\ record.submittedSequence # Null

\* some recorded transaction that is not Removed spends note h
HasLiveSpender(h) ==
  \E t \in DOMAIN transactions :
    /\ ~IsRemoved(transactions[t])
    /\ h \in ReferencedNotes(nullifierToNoteHash, decryptedNotes,
                             spends(transactions[t].transaction))

\* C3: a decrypted note is spent if and only if a transaction record that is
\* not Removed has a spend whose nullifier maps to the note.
C3_SpentIffLiveSpender ==
  \A h \in DOMAIN decryptedNotes : decryptedNotes[h].spent <=> HasLiveSpender(h)

\* the note hashes held in some bucket of the Sequence Index
InSequenceIndex ==
  UNION { noteHashesBySequence[q] : q \in DOMAIN noteHashesBySequence }

\* C4: the Non-chain Note Set and the Sequence Index are disjoint, and every
\* decrypted note hash is in exactly one of them.
C4_NonChainComplementsSequenceIndex ==
  /\ nonChainNoteHashes \cap InSequenceIndex = {}
  /\ DOMAIN decryptedNotes \subseteq nonChainNoteHashes \cup InSequenceIndex

\* C5: a decrypted note's hash is in the Sequence Index if and only if its
\* owning transaction record has a sequence, and then in the bucket of that
\* sequence only.
C5_SequenceIndexFollowsOwner ==
  \A h \in DOMAIN decryptedNotes :
    \A q \in Sequences :
      (Has(noteHashesBySequence, q) /\ h \in noteHashesBySequence[q])
        <=> (HasOwner(h) /\ Owner(h).sequence = q)

\* C6: every entry of the Nullifier Index refers to a note hash that is in the
\* decrypted-note map.
C6_NullifierIndexRefersToNotes ==
  \A n \in DOMAIN nullifierToNoteHash :
    Has(decryptedNotes, nullifierToNoteHash[n])

\* the notes a syncTransaction call was given that are not spender-derived
ReceivedNotes(call) ==
  { call.decryptedNotes[i].merkleHash :
      i \in { j \in DOMAIN call.decryptedNotes : ~call.decryptedNotes[j].forSpender } }

\* C7: after a syncTransaction call carrying block hash B and sequence S the
\* record of the transaction has (blockHash, sequence) = (B, S), and every
\* note of the call that is not spender-derived is in bucket S of the
\* Sequence Index and not in the Non-chain Note Set.
C7_MinedSyncIndexesNotes ==
  (lastCall.op = "syncTransaction" /\ lastCall.params.blockHash # Null) =>
    LET hash == unsignedHash(lastCall.transaction)
        S == lastCall.params.sequence
    IN  /\ Has(transactions, hash)
        /\ transactions[hash].blockHash = lastCall.params.blockHash
        /\ transactions[hash].sequence = S
        /\ \A h \in ReceivedNotes(lastCall) :
             /\ Has(noteHashesBySequence, S)
             /\ h \in noteHashesBySequence[S]
             /\ h \notin nonChainNoteHashes

\* C7 witness: a transaction whose note was indexed at sequence 1 or held as
\* non-chain has just been synced as mined at sequence 2.
C7_Witness ==
  /\ lastCall.op = "syncTransaction"
  /\ lastCall.ok
  /\ lastCall.params.blockHash = 2
  /\ ReceivedNotes(lastCall) # {}
  /\ Has(noteHashesBySequence, 1)
  /\ ReceivedNotes(lastCall) \subseteq noteHashesBySequence[1]

\* C9: after a syncTransaction call carrying a submittedSequence only, the
\* record of the transaction is Pending.
C9_SubmittedSyncIsPending ==
  (lastCall.op = "syncTransaction" /\ lastCall.params.submittedSequence # Null) =>
    /\ Has(transactions, unsignedHash(lastCall.transaction))
    /\ IsPending(transactions[unsignedHash(lastCall.transaction)])

RECURSIVE SumOf(_)
\* the values of a set of notes, each named by its hash
SumOf(hashes) ==
  IF hashes = {} THEN 0
  ELSE LET hash == Min(hashes) IN value(hash) + SumOf(hashes \ {hash})

\* a step that is a completed syncTransaction call with neither
\* submittedSequence nor blockHash on a transaction that has a record
IsRemovingResync ==
  /\ lastCall'.op = "syncTransaction"
  /\ lastCall'.ok
  /\ lastCall'.params.blockHash = Null
  /\ lastCall'.params.submittedSequence = Null
  /\ Has(transactions, unsignedHash(lastCall'.transaction))

\* the notes of the account that the spends of the call's transaction refer to
SpentByCall ==
  ReferencedNotes(nullifierToNoteHash', decryptedNotes',
                  spends(lastCall'.transaction))

\* the step leaves every note its spends refer to unspent, and raises the
\* balance by the value of each such note that was spent, beside the value of
\* each received note of the call that was not stored unspent before
UnspendsItsSpends ==
  /\ \A h \in SpentByCall : ~decryptedNotes'[h].spent
  /\ accountsDb'.unconfirmedBalance =
       accountsDb.unconfirmedBalance
         + SumOf({ h \in SpentByCall :
                     Has(decryptedNotes, h) /\ decryptedNotes[h].spent })
         + SumOf({ h \in ReceivedNotes(lastCall') :
                     ~Has(decryptedNotes, h) \/ decryptedNotes[h].spent })

Change(e) == e.after - e.before

\* C10: an updateDecryptedNote call that adds a note unspent raises the
\* balance by its value, one that turns a stored note from unspent to spent
\* lowers it by the value, from spent to unspent raises it by the value, and
\* one that leaves the spent flag as stored changes it by 0; the balance a
\* syncTransaction call leaves is the one its last update left.
C10_BalanceConservation ==
  /\ \A i \in DOMAIN updateLog :
       LET e == updateLog[i]
       IN  /\ (~e.existed /\ ~e.spent) => Change(e) = e.value
           /\ (e.existed /\ ~e.wasSpent /\ e.spent) => Change(e) = -e.value
           /\ (e.existed /\ e.wasSpent /\ ~e.spent) => Change(e) = e.value
           /\ (e.existed /\ e.wasSpent = e.spent) => Change(e) = 0
           /\ i > 1 => e.before = updateLog[i - 1].after
  /\ (lastCall.op = "syncTransaction" /\ lastCall.ok /\ updateLog # <<>>) =>
       getUnconfirmedBalance = updateLog[Len(updateLog)].after

\* C10 witness: one syncTransaction call has re-added a stored note with its
\* spent flag unchanged and turned another note from unspent to spent.
C10_Witness ==
  /\ lastCall.op = "syncTransaction"
  /\ lastCall.ok
  /\ \E i \in DOMAIN updateLog :
       updateLog[i].existed /\ updateLog[i].wasSpent = updateLog[i].spent
  /\ \E i \in DOMAIN updateLog :
       updateLog[i].existed /\ ~updateLog[i].wasSpent /\ updateLog[i].spent

\* a step that is a syncTransaction call with the transaction, decrypted notes
\* and status of the syncTransaction call before it
IsRepeatedSync ==
  /\ lastCall'.op = "syncTransaction"
  /\ lastCall'.repeat

\* C11: a syncTransaction call that repeats the call before it leaves the
\* unconfirmed balance, the decrypted notes, the Nullifier Index, the
\* transaction table, the Sequence Index and the Non-chain Note Set as the
\* first call left them.
C11_RepeatedSyncKeepsState ==
  [][IsRepeatedSync =>
       /\ accountsDb'.unconfirmedBalance = accountsDb.unconfirmedBalance
       /\ UNCHANGED <<decryptedNotes, nullifierToNoteHash, transactions,
                      noteHashesBySequence, nonChainNoteHashes>>]_vars

\* C11 witness: a spending transaction has been synced twice in a row as
\* mined; the second call re-added its note and found the note it spends
\* already spent.
C11_Witness ==
  /\ lastCall.op = "syncTransaction"
  /\ lastCall.repeat
  /\ lastCall.ok
  /\ lastCall.params.blockHash # Null
  /\ Len(updateLog) > 1
  /\ \E i \in DOMAIN updateLog : updateLog[i].wasSpent /\ updateLog[i].spent

\* C12: a syncTransaction call that repeats the call before it issues no store
\* write.
C12_RepeatedSyncWritesNothing ==
  (lastCall.op = "syncTransaction" /\ lastCall.repeat /\ lastCall.ok) =>
    storeWrites = {}

\* new Account(...) with the same id on the store of s: empty maps and sets
FreshAccount(s) ==
  [s EXCEPT !.decryptedNotes = EmptyMap,
            !.nullifierToNoteHash = EmptyMap,
            !.transactions = EmptyMap,
            !.noteHashesBySequence = EmptyMap,
            !.nonChainNoteHashes = {}]

\* save() on the account, then load() on a fresh account with the same id
SaveThenLoad == load(FreshAccount(save(Current)))

\* C13: save() followed by load() on a fresh account yields the decrypted
\* notes, the Nullifier Index and the transaction table the account had before
\* save, and the unconfirmed balance it had before save.
C13_SaveLoadRoundTrip ==
  /\ SaveThenLoad.ok
  /\ SaveThenLoad.decryptedNotes = decryptedNotes
  /\ SaveThenLoad.nullifierToNoteHash = nullifierToNoteHash
  /\ SaveThenLoad.transactions = transactions
  /\ SaveThenLoad.accountsDb.unconfirmedBalance = accountsDb.unconfirmedBalance

\* the index part of C13 alone
C13_IndexPart ==
  /\ SaveThenLoad.ok
  /\ SaveThenLoad.decryptedNotes = decryptedNotes
  /\ SaveThenLoad.nullifierToNoteHash = nullifierToNoteHash
  /\ SaveThenLoad.transactions = transactions

\* the merkle hashes of the notes a transaction produces
ProducedNotes(transaction) ==
  { notes(transaction)[i] : i \in DOMAIN notes(transaction) }

\* C14: after a deleteTransaction call that completes, no note the
\* transaction produced is in the decrypted-note map, no entry of the
\* Nullifier Index maps to such a note, and the transaction has no record.
C14_DeleteForgetsTransaction ==
  (lastCall.op = "deleteTransaction" /\ lastCall.ok) =>
    /\ ProducedNotes(lastCall.transaction) \cap DOMAIN decryptedNotes = {}
    /\ \A n \in DOMAIN nullifierToNoteHash :
         nullifierToNoteHash[n] \notin ProducedNotes(lastCall.transaction)
    /\ ~Has(transactions, unsignedHash(lastCall.transaction))

\* C15: a syncTransaction or deleteTransaction call that throws, and whose
\* store writes are rolled back, leaves the transaction table, the decrypted
\* notes, the Nullifier Index, the Sequence Index and the Non-chain Note Set
\* as they were before the call.
C15_AbortLeavesMemory ==
  [][(lastCall'.op \in {"syncTransaction", "deleteTransaction"} /\ ~lastCall'.ok)
       => /\ accountsDb' = accountsDb
          /\ UNCHANGED <<transactions, decryptedNotes, nullifierToNoteHash,
                         noteHashesBySequence, nonChainNoteHashes>>]_vars

\* C16: after reset() the decrypted-note map, the Nullifier Index, the
\* transaction table, the Sequence Index and the Non-chain Note Set are empty
\* and the unconfirmed balance is 0.
C16_ResetZeroesIndices ==
  lastCall.op = "reset" =>
    /\ decryptedNotes = EmptyMap
    /\ nullifierToNoteHash = EmptyMap
    /\ transactions = EmptyMap
    /\ InSequenceIndex = {}
    /\ nonChainNoteHashes = {}
    /\ getUnconfirmedBalance = 0

\* C17: the owning transaction of every decrypted note has a record in the
\* transaction table.
C17_NoteHasTransaction ==
  \A h \in DOMAIN decryptedNotes : HasOwner(h)

\* a step that is a deleteTransaction call that completes
IsCompletedDelete ==
  /\ lastCall'.op = "deleteTransaction"
  /\ lastCall'.ok

\* the notes still present after the call that the spends of the deleted
\* transaction refer to through the Nullifier Index
UnspentByDelete ==
  ReferencedNotes(nullifierToNoteHash', decryptedNotes',
                  spends(lastCall'.transaction))

SpenderNotes(call) ==
  { call.decryptedNotes[i].merkleHash :
      i \in { j \in DOMAIN call.decryptedNotes : call.decryptedNotes[j].forSpender } }

\* a decryptedNotes array without its spender-derived elements
WithoutSpenderNotes(inputs) ==
  SelectSeq(inputs, LAMBDA decryptedNote : ~decryptedNote.forSpender)

\* what the call of the step would leave had it been given no spender-derived
\* note
SyncOfReceivedOnly ==
  syncTransaction(Current, lastCall'.transaction,
                  WithoutSpenderNotes(lastCall'.decryptedNotes), lastCall'.params)

\* the decrypted-note map, the Nullifier Index, the Sequence Index, the
\* Non-chain Note Set and the unconfirmed balance of an account
NotesAndBalance(s) ==
  <<s.decryptedNotes, s.nullifierToNoteHash, s.noteHashesBySequence,
    s.nonChainNoteHashes, s.accountsDb.unconfirmedBalance>>

\* C19: a syncTransaction call records no spender-derived note: the note is
\* in no index after the call, no updateDecryptedNote call is made for it,
\* and the decrypted-note map, the Nullifier Index, the Sequence Index, the
\* Non-chain Note Set and the unconfirmed balance are what the call leaves
\* when it is given the other notes only.
C19_SpenderNotesNotRecorded ==
  [][(lastCall'.op = "syncTransaction" /\ SpenderNotes(lastCall') # {}) =>
       /\ \A h \in SpenderNotes(lastCall') :
            /\ ~Has(decryptedNotes', h)
            /\ \A n \in DOMAIN nullifierToNoteHash' : nullifierToNoteHash'[n] # h
            /\ \A q \in DOMAIN noteHashesBySequence' : h \notin noteHashesBySequence'[q]
            /\ h \notin nonChainNoteHashes'
            /\ \A i \in DOMAIN updateLog' : updateLog'[i].noteHash # h
       /\ <<decryptedNotes', nullifierToNoteHash', noteHashesBySequence',
            nonChainNoteHashes', accountsDb'.unconfirmedBalance>>
            = NotesAndBalance(SyncOfReceivedOnly)]_vars

\* C19 witness: a syncTransaction call given a spender-derived note beside a
\* received one has completed and recorded the received one.
C19_Witness ==
  /\ lastCall.op = "syncTransaction"
  /\ lastCall.ok
  /\ SpenderNotes(lastCall) # {}
  /\ ReceivedNotes(lastCall) # {}
  /\ ReceivedNotes(lastCall) \subseteq DOMAIN decryptedNotes
  /\ SpenderNotes(lastCall) \cap DOMAIN decryptedNotes = {}

\* C20: every note hash held in a bucket of the Sequence Index or in the
\* Non-chain Note Set has an entry in the decrypted-note map, and getBalance
\* returns for every window.
C20_IndexedNotesExist ==
  /\ InSequenceIndex \cup nonChainNoteHashes \subseteq DOMAIN decryptedNotes
  /\ \A w \in Windows : getBalance(w[1], w[2]).ok

\* the unconfirmed balance after the two calls run one after the other from
\* the account they began on, first the call of caller a, then that of b
SerialBalance(a, b) ==
  updateDecryptedNote(
    updateDecryptedNote(base[1], tasks[a].noteHash, tasks[a].note),
    tasks[b].noteHash, tasks[b].note).accountsDb.unconfirmedBalance

BothCompleted == \A k \in Tasks : tasks[k].pc = "done" /\ tasks[k].ok

\* C21: when two updateDecryptedNote calls on different notes, each in its
\* own scope, have both completed, the unconfirmed balance is the one that
\* running them in one of the two serial orders leaves.
C21_InterleavedBalanceIsSerial ==
  BothCompleted =>
    getUnconfirmedBalance \in {SerialBalance(1, 2), SerialBalance(2, 1)}

====
